---- MODULE Spec2Model ----
(***************************************************************************)
(* Model of windy (src/main.go): a Fastly Compute handler that fetches an  *)
(* hourly wind forecast and hourly electricity prices, merges them by hour *)
(* key and renders JSON or HTML.  src/main.go holds three revisions of the *)
(* program; `variant` selects one of them:                                 *)
(*   1  lines   1-153  winds only, coordinates from geolocation            *)
(*   2  lines 155-496  winds + prices, lat/long query parameters, title()  *)
(*   3  lines 498-800  winds + prices, coordinates from geolocation        *)
(*                                                                         *)
(* Representation.  A float64 is an integer number of thousandths.  A Go   *)
(* pointer *entry is a sequence: <<>> is nil, <<e>> points to e.  A Go     *)
(* error is a string, "" is nil.  A function that can panic returns        *)
(* [panic |-> msg, val |-> v] with msg = "" when it returns normally.      *)
(* resp holds the response bodies the fetcher at work has received.        *)
(***************************************************************************)
EXTENDS Integers, Sequences, FiniteSets, TLC

VARIABLES variant, req, pc, rw, calls, g, lat, long, resp, entries, eToday,
          prices, err, panicked, merges, prev

vars == <<variant, req, pc, rw, calls, g, lat, long, resp, entries, eToday,
          prices, err, panicked, merges, prev>>

(***************************************************************************)
(* Bounds of the model.                                                    *)
(***************************************************************************)
\* longest "short" forecast array; long ones have max-1, max, max+1 entries
MaxShort == 2
\* most price objects in one day's price response (request handler)
MaxDay == 2
\* most price points handed to merge when merge is checked on its own
MaxPrices == 3

(***************************************************************************)
(* Program constants.                                                      *)
(***************************************************************************)
max == 72
KeyLen == 16
StatusOK == 200
StatusBadRequest == 400
StatusNotFound == 404
StatusMethodNotAllowed == 405
StatusInternalServerError == 500
StatusBadGateway == 502

Variants == {1, 2, 3}

(***************************************************************************)
(* Strings and number formatting.                                          *)
(***************************************************************************)
Min(a, b) == IF a <= b THEN a ELSE b

\* strings.HasPrefix
HasPrefix(s, p) == Len(s) >= Len(p) /\ SubSeq(s, 1, Len(p)) = p

\* the verb %.Ns: at most n characters of s
Trunc(s, n) == IF Len(s) <= n THEN s ELSE SubSeq(s, 1, n)

\* the verb %q on a string without special characters
Quote(s) == "\"" \o s \o "\""

Digit(d) == SubSeq("0123456789", d + 1, d + 1)

RECURSIVE Itoa(_)
Itoa(n) == IF n < 10 THEN Digit(n) ELSE Itoa(n \div 10) \o Digit(n % 10)

\* the verb %.2f on a float held in thousandths (half-way cases are not drawn)
Fmt2(x) ==
    LET a == IF x < 0 THEN -x ELSE x
        h == (a + 5) \div 10
    IN  (IF x < 0 /\ h > 0 THEN "-" ELSE "")
        \o Itoa(h \div 100) \o "." \o Digit((h \div 10) % 10) \o Digit(h % 10)

\* the verb %f on a float held in thousandths
FmtF(x) ==
    LET a == IF x < 0 THEN -x ELSE x
    IN  (IF x < 0 THEN "-" ELSE "")
        \o Itoa(a \div 1000) \o "." \o Digit((a \div 100) % 10)
        \o Digit((a \div 10) % 10) \o Digit(a % 10) \o "000"

\* index of the first occurrence of the one-character string c in s, 0 if none
RECURSIVE IndexFrom(_, _, _)
IndexFrom(s, c, i) ==
    IF i > Len(s) THEN 0
    ELSE IF SubSeq(s, i, i) = c THEN i
    ELSE IndexFrom(s, c, i + 1)

\* strings.Cut with a one-character separator: <<before, after>>
Cut(s, c) ==
    LET i == IndexFrom(s, c, 1)
    IN  IF i = 0 THEN <<s, "">>
        ELSE <<SubSeq(s, 1, i - 1), SubSeq(s, i + 1, Len(s))>>

Lower == "abcdefghijklmnopqrstuvwxyz"
Upper == "ABCDEFGHIJKLMNOPQRSTUVWXYZ"

UpperChar(c) ==
    LET i == IndexFrom(Lower, c, 1)
    IN  IF i = 0 THEN c ELSE SubSeq(Upper, i, i)

\* strings.Title: upper-case the first letter of every word
RECURSIVE TitleFrom(_, _)
TitleFrom(s, i) ==
    IF i > Len(s) THEN ""
    ELSE (IF i = 1 \/ SubSeq(s, i - 1, i - 1) = " "
          THEN UpperChar(SubSeq(s, i, i)) ELSE SubSeq(s, i, i))
         \o TitleFrom(s, i + 1)

Title(s) == TitleFrom(s, 1)

(***************************************************************************)
(* Values.                                                                 *)
(***************************************************************************)
nil == <<>>
Ptr(e) == <<e>>
Deref(p) == p[1]

Ok(v) == [panic |-> "", val |-> v]
Panic(msg) == [panic |-> msg, val |-> <<>>]

Entry(hour, speed, gust, price) ==
    [hour |-> hour, gust |-> gust, speed |-> speed, price |-> price]

Wind(hour, speed, gust) == [hour |-> hour, gust |-> gust, speed |-> speed]

NoGeo == [Latitude |-> 0, Longitude |-> 0, City |-> "", CountryName |-> ""]

Geos == {[Latitude |-> 55605, Longitude |-> 13003,
          City |-> "malmo", CountryName |-> "sweden"]}

(***************************************************************************)
(* Inputs: the request, and what the upstream services answer.             *)
(***************************************************************************)
Methods == {"GET", "HEAD", "POST"}
Addrs == {"192.0.2.7", "bogus"}
Paths == {"/", "/wind", "/wind.json", "/wind.html"}
\* the lat and long query parameters, "" when absent
Queries == {<<"", "">>, <<"55.61", "">>, <<"55.61", "13.00">>}

\* only revision 2 reads the query
Requests(v) ==
    [Method : Methods, RemoteAddr : Addrs, Path : Paths,
     Query : IF v = 2 THEN Queries ELSE {<<"", "">>}]

\* net.ParseIP(addr) # nil
ParseIP(addr) == addr = "192.0.2.7"

\* hour labels as open-meteo writes them
HourPool == <<"2023-10-29T02:00", "2023-10-29T03:00">>

SpeedAt(i) == 3000 + 110 * i
GustAt(i) == 5000 + 120 * i

Lens == (0 .. MaxShort) \cup {max - 1, max, max + 1}

\* the hourly.time arrays of length n: every array over HourPool when n is
\* short, the pool repeated cyclically when n is long
TimesOfLen(n) ==
    IF n <= MaxShort
    THEN [1 .. n -> {HourPool[k] : k \in 1 .. Len(HourPool)}]
    ELSE {[i \in 1 .. n |-> HourPool[((i - 1) % Len(HourPool)) + 1]]}

ForecastBody(times, ns, ng) ==
    [kind |-> "forecast", time |-> times,
     windspeed_10m |-> [i \in 1 .. ns |-> SpeedAt(i)],
     windgusts_10m |-> [i \in 1 .. ng |-> GustAt(i)],
     items |-> <<>>]

ForecastBodies ==
    UNION {{ForecastBody(t, ns, ng) : t \in TimesOfLen(nt)} :
           nt \in Lens, ns \in Lens, ng \in Lens}

\* price objects as elprisetjustnu.se writes them: the two 02:00 hours of the
\* night the clocks go back, the hour after, and an hour of the next day
GoodPriceObjs ==
    {[time_start |-> "2023-10-29T02:00:00+02:00", SEK_per_kWh |-> 450],
     [time_start |-> "2023-10-29T02:00:00+01:00", SEK_per_kWh |-> 1210],
     [time_start |-> "2023-10-29T03:00:00+01:00", SEK_per_kWh |-> 980],
     [time_start |-> "2023-10-30T00:00:00+01:00", SEK_per_kWh |-> 770]}

\* what the request handler's price responses are made of: the two 02:00
\* hours and an object without time_start
PriceObjs ==
    {[time_start |-> "2023-10-29T02:00:00+02:00", SEK_per_kWh |-> 450],
     [time_start |-> "2023-10-29T02:00:00+01:00", SEK_per_kWh |-> 1210],
     [time_start |-> "", SEK_per_kWh |-> 0]}

SeqsUpTo(S, n) == UNION {[1 .. k -> S] : k \in 0 .. n}

PriceBody(items) ==
    [kind |-> "prices", time |-> <<>>, windspeed_10m |-> <<>>,
     windgusts_10m |-> <<>>, items |-> items]

PriceBodies == {PriceBody(items) : items \in SeqsUpTo(PriceObjs, MaxDay)}

ErrWinds == "open-meteo: send failed"
ErrPrice == "elpris: send failed"

(***************************************************************************)
(* The forecast fetcher.                                                   *)
(***************************************************************************)
\* revision 1: winds := make([]wind, len(times)), then for i := range speeds
\* winds[i] is filled from times[i], speeds[i], gusts[i]; an index beyond
\* winds, times or gusts panics
fetchWinds1(body) ==
    LET times == body.time
        speeds == body.windspeed_10m
        gusts == body.windgusts_10m
    IN  IF \E i \in 1 .. Len(speeds) : i > Len(times) \/ i > Len(gusts)
        THEN Panic("index out of range")
        ELSE Ok([i \in 1 .. Len(times) |->
                    IF i <= Len(speeds) THEN Wind(times[i], speeds[i], gusts[i])
                    ELSE Wind("", 0, 0)])

\* revisions 2 and 3: entries := make([]*entry, max), then for i := range
\* times, stopping at i == max, entries[i] points to a record of times[i],
\* speeds[i], gusts[i]; an index beyond speeds or gusts panics
fetchWinds(body) ==
    LET times == body.time
        speeds == body.windspeed_10m
        gusts == body.windgusts_10m
        n == Min(Len(times), max)
    IN  IF \E i \in 1 .. n : i > Len(speeds) \/ i > Len(gusts)
        THEN Panic("index out of range")
        ELSE Ok([i \in 1 .. max |->
                    IF i <= n THEN Ptr(Entry(times[i], speeds[i], gusts[i], 0))
                    ELSE nil])

(***************************************************************************)
(* The price fetcher.                                                      *)
(***************************************************************************)
RECURSIVE parsePricesLoop(_, _, _)
parsePricesLoop(items, objs, i) ==
    IF i > Len(objs) THEN Ok(items)
    ELSE IF Len(objs[i].time_start) < KeyLen
         THEN Panic("slice bounds out of range")
    ELSE parsePricesLoop(
             Append(items, Ptr(Entry(SubSeq(objs[i].time_start, 1, KeyLen),
                                     0, 0, objs[i].SEK_per_kWh))),
             objs, i + 1)

parsePrices(body) == parsePricesLoop(<<>>, body.items, 1)

\* a fetchPrices that puts tomorrow's points first
appendDaysSwapped(today, tomorrow) == tomorrow \o today

\* fetchPrices' return value once both days are there
appendDays(today, tomorrow) == today \o tomorrow

\* a fetchPrices that returns the days it has when a request fails
onPriceErrorPartial(got) == got

\* fetchPrices' return value when a day's request fails, got being the points
\* of the days fetched before: return nil, err
onPriceError(got) == nil

(***************************************************************************)
(* The merger.                                                             *)
(***************************************************************************)
\* where the inner loop stops: the first index of es that is nil or carries
\* p's hour, Len(es) + 1 when the loop runs to the end
scanStop(es, p) ==
    LET stops == {i \in 1 .. Len(es) :
                     es[i] = nil \/ Deref(es[i]).hour = p.hour}
    IN  IF stops = {} THEN Len(es) + 1
        ELSE CHOOSE i \in stops : \A k \in stops : i <= k

\* an inner loop that adds p's price to the entry's instead of setting it
mergeScanAdd(es, p) ==
    LET i == scanStop(es, p)
    IN  IF i > Len(es) THEN Ok(es)
        ELSE IF es[i] = nil THEN Panic("nil pointer dereference")
        ELSE Ok([es EXCEPT ![i] = Ptr([Deref(@) EXCEPT !.price = @ + p.price])])

\* the inner loop, for one price point p: e.hour on a nil entry panics, the
\* first entry with p's hour takes p's price and ends the loop
mergeScan(es, p) ==
    LET i == scanStop(es, p)
    IN  IF i > Len(es) THEN Ok(es)
        ELSE IF es[i] = nil THEN Panic("nil pointer dereference")
        ELSE Ok([es EXCEPT ![i] = Ptr([Deref(@) EXCEPT !.price = p.price])])

\* an outer loop that returns at the first match instead of going on with
\* the next price point
RECURSIVE mergeFromReturn(_, _, _)
mergeFromReturn(es, ps, j) ==
    IF j > Len(ps) THEN Ok(es)
    ELSE LET r == mergeScan(es, Deref(ps[j]))
         IN  IF r.panic # "" \/ scanStop(es, Deref(ps[j])) <= Len(es) THEN r
             ELSE mergeFromReturn(r.val, ps, j + 1)

\* the outer loop, over the price points from index j
RECURSIVE mergeFrom(_, _, _)
mergeFrom(es, ps, j) ==
    IF j > Len(ps) THEN Ok(es)
    ELSE LET r == mergeScan(es, Deref(ps[j]))
         IN  IF r.panic # "" THEN r ELSE mergeFrom(r.val, ps, j + 1)

merge(es, ps) == mergeFrom(es, ps, 1)

(***************************************************************************)
(* The renderer.  A rendered row holds the strings the format verbs give.  *)
(***************************************************************************)
Row(hour, speed, gust, price) ==
    [hour |-> hour, speed |-> speed, gust |-> gust, price |-> price]

\* revision 1: one JSON object per wind, without a price
toJSON1(winds) ==
    Ok([i \in 1 .. Len(winds) |->
           Row(winds[i].hour, Fmt2(winds[i].speed), Fmt2(winds[i].gust), "")])

\* revisions 2 and 3: one JSON object per entry; e.hour on a nil entry panics
toJSON(es) ==
    IF \E i \in 1 .. Len(es) : es[i] = nil
    THEN Panic("nil pointer dereference")
    ELSE Ok([i \in 1 .. Len(es) |->
                Row(Deref(es[i]).hour, Fmt2(Deref(es[i]).speed),
                    Fmt2(Deref(es[i]).gust), Fmt2(Deref(es[i]).price))])

\* revision 2: the chart label of an hour
label(hour) ==
    LET dt == Cut(hour, "T")
    IN  Quote(IF dt[2] = "00:00" THEN dt[1] ELSE dt[2])

\* the four chart arrays, row by row; the label is what `times` holds
chartRows(es, v) ==
    IF \E i \in 1 .. Len(es) : es[i] = nil
    THEN Panic("nil pointer dereference")
    ELSE Ok([i \in 1 .. Len(es) |->
                Row(IF v = 2 THEN label(Deref(es[i]).hour)
                    ELSE Quote(Deref(es[i]).hour),
                    Fmt2(Deref(es[i]).speed), Fmt2(Deref(es[i]).gust),
                    Fmt2(Deref(es[i]).price))])

\* revision 1: the list items
listRows(winds) ==
    Ok([i \in 1 .. Len(winds) |->
           Row(winds[i].hour, Fmt2(winds[i].speed), Fmt2(winds[i].gust), "")])

\* revisions 1 and 3: the page title
latLongTitle(geo) ==
    "Winds at lat: " \o Fmt2(geo.Latitude) \o ", long: " \o Fmt2(geo.Longitude)

\* revision 2: the page title
title(geo, la, lo) ==
    IF la # "" /\ lo # ""
    THEN "Winds at browser location (lat: " \o Trunc(la, 5)
         \o ", long: " \o Trunc(lo, 5) \o ")"
    ELSE "Winds in " \o Title(geo.City) \o ", " \o Title(geo.CountryName)
         \o " (lat: " \o Fmt2(geo.Latitude)
         \o ", long: " \o Fmt2(geo.Longitude) \o ")"

rootHTML(geo, v) == IF v = 2 THEN title(geo, "", "") ELSE latLongTitle(geo)

\* the title toHTML puts on the page
htmlTitle(geo, la, lo, v) == IF v = 2 THEN title(geo, la, lo) ELSE latLongTitle(geo)

(***************************************************************************)
(* The response writer: the handler's calls on rw, in order.               *)
(***************************************************************************)
WriteHeader(code) ==
    [op |-> "WriteHeader", code |-> code, kind |-> "", text |-> "", rows |-> <<>>]

SetContentType(v) ==
    [op |-> "Header.Set", code |-> 0, kind |-> "Content-Type", text |-> v,
     rows |-> <<>>]

Write(kind, text, rows) ==
    [op |-> "Write", code |-> 0, kind |-> kind, text |-> text, rows |-> rows]

\* an outbound request and whether req.Send (or reading the body) failed
Call(backend, what, failed) ==
    [backend |-> backend, what |-> what, failed |-> failed]

\* the coordinates as sendRequest puts them into the forecast URL
windsURL(geo, la, lo, v) ==
    IF v = 2
    THEN "latitude=" \o Trunc(la, 2) \o "&longitude=" \o Trunc(lo, 2)
    ELSE "latitude=" \o Fmt2(geo.Latitude) \o "&longitude=" \o Fmt2(geo.Longitude)

(***************************************************************************)
(* The request handler, one action per step of the function passed to      *)
(* fsthttp.ServeFunc.                                                       *)
(***************************************************************************)
Init ==
    /\ variant \in Variants
    /\ req \in Requests(variant)
    /\ pc = "method"
    /\ rw = <<>>
    /\ calls = <<>>
    /\ g = NoGeo
    /\ lat = ""
    /\ long = ""
    /\ resp = <<>>
    /\ entries = nil
    /\ eToday = nil
    /\ prices = nil
    /\ err = ""
    /\ panicked = ""
    /\ merges = 0
    /\ prev = nil

\* a method check that answers 405 and goes on
CheckMethodNoReturn ==
    /\ pc = "method"
    /\ rw' = IF req.Method # "HEAD" /\ req.Method # "GET"
             THEN rw \o <<WriteHeader(StatusMethodNotAllowed),
                          Write("text", "This method is not allowed", <<>>)>>
             ELSE rw
    /\ pc' = IF variant = 1 THEN "notfound" ELSE "ip"
    /\ UNCHANGED <<variant, req, calls, g, lat, long, resp, entries, eToday,
                   prices, err, panicked, merges, prev>>

\* if req.Method != "HEAD" && req.Method != "GET" { 405; return }
CheckMethod ==
    /\ pc = "method"
    /\ IF req.Method # "HEAD" /\ req.Method # "GET"
       THEN /\ rw' = rw \o <<WriteHeader(StatusMethodNotAllowed),
                             Write("text", "This method is not allowed", <<>>)>>
            /\ pc' = "done"
       ELSE /\ rw' = rw
            /\ pc' = IF variant = 1 THEN "notfound" ELSE "ip"
    /\ UNCHANGED <<variant, req, calls, g, lat, long, resp, entries, eToday,
                   prices, err, panicked, merges, prev>>

\* revision 1: if !strings.HasPrefix(req.URL.Path, "/wind") { 404 }, no return
CheckPath ==
    /\ pc = "notfound"
    /\ variant = 1
    /\ rw' = IF ~HasPrefix(req.Path, "/wind")
             THEN rw \o <<WriteHeader(StatusNotFound),
                          Write("text", "The page you requested could not be found",
                                <<>>)>>
             ELSE rw
    /\ pc' = "ip"
    /\ UNCHANGED <<variant, req, calls, g, lat, long, resp, entries, eToday,
                   prices, err, panicked, merges, prev>>

\* ip := net.ParseIP(req.RemoteAddr); if ip == nil { 400; return }
ParseAddr ==
    /\ pc = "ip"
    /\ IF ~ParseIP(req.RemoteAddr)
       THEN /\ rw' = rw \o <<WriteHeader(StatusBadRequest),
                             Write("text", "unable to parse the client IP "
                                           \o Quote(req.RemoteAddr), <<>>)>>
            /\ pc' = "done"
       ELSE /\ rw' = rw
            /\ pc' = "geo"
    /\ UNCHANGED <<variant, req, calls, g, lat, long, resp, entries, eToday,
                   prices, err, panicked, merges, prev>>

\* g, err := geo.Lookup(ip); if err != nil { 500; return }
Lookup ==
    /\ pc = "geo"
    /\ \/ /\ rw' = rw \o <<WriteHeader(StatusInternalServerError),
                           Write("text", "unable to get client ip", <<>>)>>
          /\ err' = "geo: lookup failed"
          /\ pc' = "done"
          /\ g' = g
       \/ /\ g' \in Geos
          /\ err' = ""
          /\ rw' = rw
          /\ pc' = IF variant = 1 THEN "winds" ELSE "route"
    /\ UNCHANGED <<variant, req, calls, lat, long, resp, entries, eToday,
                   prices, panicked, merges, prev>>

\* revisions 2 and 3: the root page for a path outside /wind; revision 2 then
\* reads lat and long and falls back to the geolocation when one is missing
Route ==
    /\ pc = "route"
    /\ variant \in {2, 3}
    /\ IF ~HasPrefix(req.Path, "/wind")
       THEN /\ rw' = Append(rw, Write("root", rootHTML(g, variant), <<>>))
            /\ pc' = "done"
            /\ UNCHANGED <<lat, long>>
       ELSE /\ rw' = rw
            /\ pc' = "winds"
            /\ IF variant = 2
               THEN IF req.Query[1] = "" \/ req.Query[2] = ""
                    THEN /\ lat' = FmtF(g.Latitude)
                         /\ long' = FmtF(g.Longitude)
                    ELSE /\ lat' = req.Query[1]
                         /\ long' = req.Query[2]
               ELSE UNCHANGED <<lat, long>>
    /\ UNCHANGED <<variant, req, calls, g, resp, entries, eToday, prices, err,
                   panicked, merges, prev>>

\* entries, err := fetchWinds(...); revision 1 answers 502 on an error,
\* revisions 2 and 3 go on to fetchPrices
FetchWinds ==
    /\ pc = "winds"
    /\ \/ /\ calls' = Append(calls, Call("open-meteo",
                                        windsURL(g, lat, long, variant), TRUE))
          /\ err' = ErrWinds
          /\ entries' = nil
          /\ resp' = <<>>
          /\ panicked' = panicked
          /\ IF variant = 1
             THEN /\ rw' = rw \o <<WriteHeader(StatusBadGateway),
                                   Write("error", ErrWinds, <<>>)>>
                  /\ pc' = "done"
             ELSE /\ rw' = rw
                  /\ pc' = "today"
       \/ \E body \in ForecastBodies :
            LET r == IF variant = 1 THEN fetchWinds1(body) ELSE fetchWinds(body)
            IN  /\ calls' = Append(calls, Call("open-meteo",
                                      windsURL(g, lat, long, variant), FALSE))
                /\ resp' = <<body>>
                /\ rw' = rw
                /\ IF r.panic # ""
                   THEN /\ panicked' = r.panic
                        /\ pc' = "panic"
                        /\ UNCHANGED <<entries, err>>
                   ELSE /\ entries' = r.val
                        /\ err' = ""
                        /\ panicked' = panicked
                        /\ pc' = IF variant = 1 THEN "render" ELSE "today"
    /\ UNCHANGED <<variant, req, g, lat, long, eToday, prices, merges, prev>>

\* fetchPrices, first half: eToday, err := fetchPrice(ctx, region, today)
FetchPriceToday ==
    /\ pc = "today"
    /\ \/ /\ calls' = Append(calls, Call("elpris", "today_SE4", TRUE))
          /\ prices' = onPriceError(nil)
          /\ err' = ErrPrice
          /\ resp' = <<>>
          /\ pc' = "merge"
          /\ UNCHANGED <<eToday, panicked>>
       \/ \E body \in PriceBodies :
            LET r == parsePrices(body)
            IN  /\ calls' = Append(calls, Call("elpris", "today_SE4", FALSE))
                /\ resp' = <<body>>
                /\ IF r.panic # ""
                   THEN /\ panicked' = r.panic
                        /\ pc' = "panic"
                        /\ UNCHANGED <<eToday, prices, err>>
                   ELSE /\ eToday' = r.val
                        /\ pc' = "tomorrow"
                        /\ UNCHANGED <<prices, err, panicked>>
    /\ UNCHANGED <<variant, req, rw, g, lat, long, entries, merges, prev>>

\* fetchPrices, second half: eTomorrow, err := fetchPrice(ctx, region, tomorrow)
\* and return append(eToday, eTomorrow...), nil
FetchPriceTomorrow ==
    /\ pc = "tomorrow"
    /\ \/ /\ calls' = Append(calls, Call("elpris", "tomorrow_SE4", TRUE))
          /\ prices' = onPriceError(eToday)
          /\ err' = ErrPrice
          /\ resp' = resp
          /\ pc' = "merge"
          /\ UNCHANGED panicked
       \/ \E body \in PriceBodies :
            LET r == parsePrices(body)
            IN  /\ calls' = Append(calls, Call("elpris", "tomorrow_SE4", FALSE))
                /\ resp' = Append(resp, body)
                /\ IF r.panic # ""
                   THEN /\ panicked' = r.panic
                        /\ pc' = "panic"
                        /\ UNCHANGED <<prices, err>>
                   ELSE /\ prices' = appendDays(eToday, r.val)
                        /\ err' = ""
                        /\ pc' = "merge"
                        /\ UNCHANGED panicked
    /\ UNCHANGED <<variant, req, rw, g, lat, long, entries, eToday, merges, prev>>

\* merge(entries, prices)
Merge ==
    /\ pc = "merge"
    /\ LET r == merge(entries, prices)
       IN  IF r.panic # ""
           THEN /\ panicked' = r.panic
                /\ pc' = "panic"
                /\ UNCHANGED <<entries, merges, prev>>
           ELSE /\ entries' = r.val
                /\ prev' = entries
                /\ merges' = merges + 1
                /\ pc' = "err"
                /\ UNCHANGED panicked
    /\ UNCHANGED <<variant, req, rw, calls, g, lat, long, resp, eToday, prices,
                   err>>

\* if err != nil { 502; fmt.Fprintln(rw, err); return }
CheckErr ==
    /\ pc = "err"
    /\ IF err # ""
       THEN /\ rw' = rw \o <<WriteHeader(StatusBadGateway), Write("error", err, <<>>)>>
            /\ pc' = "done"
       ELSE /\ rw' = rw
            /\ pc' = "render"
    /\ UNCHANGED <<variant, req, calls, g, lat, long, resp, entries, eToday,
                   prices, err, panicked, merges, prev>>

\* does this revision answer the path with JSON
jsonPath(path, v) == path = "/wind.json" \/ (v # 2 /\ path = "/wind")

\* the two path tests that end the handler
Render ==
    /\ pc = "render"
    /\ LET r == IF jsonPath(req.Path, variant)
                THEN IF variant = 1 THEN toJSON1(entries) ELSE toJSON(entries)
                ELSE IF req.Path = "/wind.html"
                THEN IF variant = 1 THEN listRows(entries)
                     ELSE chartRows(entries, variant)
                ELSE Ok(<<>>)
           ctype == IF jsonPath(req.Path, variant)
                    THEN <<SetContentType("application/json")>>
                    ELSE IF req.Path = "/wind.html"
                    THEN <<SetContentType("text/html; charset=utf-8")>>
                    ELSE <<>>
           body == IF jsonPath(req.Path, variant)
                   THEN <<Write("json", "", r.val)>>
                   ELSE IF req.Path = "/wind.html"
                   THEN <<Write("html", htmlTitle(g, lat, long, variant), r.val)>>
                   ELSE <<>>
       IN  IF r.panic # ""
           THEN /\ rw' = rw \o ctype
                /\ panicked' = r.panic
                /\ pc' = "panic"
           ELSE /\ rw' = rw \o ctype \o body
                /\ panicked' = panicked
                /\ pc' = "done"
    /\ UNCHANGED <<variant, req, calls, g, lat, long, resp, entries, eToday,
                   prices, err, merges, prev>>

Next ==
    \/ CheckMethod
    \/ CheckPath
    \/ ParseAddr
    \/ Lookup
    \/ Route
    \/ FetchWinds
    \/ FetchPriceToday
    \/ FetchPriceTomorrow
    \/ Merge
    \/ CheckErr
    \/ Render

Spec == Init /\ [][Next]_vars

(***************************************************************************)
(* merge on its own: entries as fetchWinds returns them, prices as         *)
(* fetchPrices returns them, and merge applied to them again and again.    *)
(***************************************************************************)
\* how often merge is applied
MaxMerges == 2

MergeEntries ==
    {nil} \cup {fetchWinds(b).val : b \in {c \in ForecastBodies : fetchWinds(c).panic = ""}}

MergePrices ==
    {parsePrices(PriceBody(items)).val : items \in SeqsUpTo(GoodPriceObjs, MaxPrices)}

InitMerge ==
    /\ variant \in {2, 3}
    /\ req = [Method |-> "GET", RemoteAddr |-> "192.0.2.7", Path |-> "/wind.json",
              Query |-> <<"", "">>]
    /\ pc = "merging"
    /\ rw = <<>>
    /\ calls = <<>>
    /\ g = NoGeo
    /\ lat = ""
    /\ long = ""
    /\ resp = <<>>
    /\ entries \in MergeEntries
    /\ eToday = nil
    /\ prices \in MergePrices
    /\ err = ""
    /\ panicked = ""
    /\ merges = 0
    /\ prev = entries

\* merge(entries, prices), once more
MergeAgain ==
    /\ pc = "merging"
    /\ merges < MaxMerges
    /\ LET r == merge(entries, prices)
       IN  IF r.panic # ""
           THEN /\ panicked' = r.panic
                /\ pc' = "panic"
                /\ UNCHANGED <<entries, merges, prev>>
           ELSE /\ entries' = r.val
                /\ prev' = entries
                /\ merges' = merges + 1
                /\ pc' = pc
                /\ UNCHANGED panicked
    /\ UNCHANGED <<variant, req, rw, calls, g, lat, long, resp, eToday, prices,
                   err>>

NextMerge == MergeAgain

SpecMerge == InitMerge /\ [][NextMerge]_vars

(***************************************************************************)
(* What the client gets, read off the calls on rw.                         *)
(***************************************************************************)
\* the status line: the first WriteHeader, or 200 when the body came first
\* or nothing was written
StatusOf(w) ==
    IF w # <<>> /\ w[1].op = "WriteHeader" THEN w[1].code ELSE StatusOK

\* the body parts of one kind
Wrote(w, kind) == {i \in 1 .. Len(w) : w[i].op = "Write" /\ w[i].kind = kind}

ContentTypeSet(w, v) ==
    \E i \in 1 .. Len(w) :
        w[i].op = "Header.Set" /\ w[i].kind = "Content-Type" /\ w[i].text = v

\* the outbound requests that failed
Failed(cs) == {i \in 1 .. Len(cs) : cs[i].failed}

\* the price point a price object is parsed into
PricePoint(o) == Ptr(Entry(SubSeq(o.time_start, 1, KeyLen), 0, 0, o.SEK_per_kWh))

\* indices of the price points with hour h
Priced(ps, h) == {j \in 1 .. Len(ps) : Deref(ps[j]).hour = h}

\* is entry i the first entry of es that carries its hour
FirstOfHour(es, i) ==
    /\ es[i] # nil
    /\ \A k \in 1 .. i - 1 : es[k] # nil => Deref(es[k]).hour # Deref(es[i]).hour

Last(S) == CHOOSE j \in S : \A k \in S : k <= j

(***************************************************************************)
(* C1.  In the handler of revisions 2 and 3, whenever the forecast fetch   *)
(* or the price fetch returned an error, the response is 502 with the      *)
(* error text as body, and neither JSON nor HTML is written.               *)
(***************************************************************************)
C1_FetchErrorIs502 ==
    (variant \in {2, 3} /\ pc = "done" /\ Failed(calls) # {})
    => /\ StatusOf(rw) = StatusBadGateway
       /\ Wrote(rw, "error") # {}
       /\ Wrote(rw, "json") = {}
       /\ Wrote(rw, "html") = {}

(***************************************************************************)
(* C2.  After merge(entries, prices) every first entry of an hour holds    *)
(* the price of every price point of that hour, and an entry whose hour    *)
(* no price point has keeps price 0 (the claim as written).                *)
(***************************************************************************)
C2_EveryMatchingPrice ==
    merges >= 1 =>
        \A i \in 1 .. Len(entries) :
            entries[i] # nil =>
                LET f == Deref(entries[i])
                IN  /\ FirstOfHour(entries, i) =>
                           \A j \in Priced(prices, f.hour) :
                               f.price = Deref(prices[j]).price
                    /\ Priced(prices, f.hour) = {} => f.price = 0

(***************************************************************************)
(* C2, amended.  After merge(entries, prices) has returned, every first    *)
(* entry of an hour holds the price of the last price point of that hour,  *)
(* and an entry whose hour no price point has keeps price 0.               *)
(***************************************************************************)
C2_LastMatchingPrice ==
    merges >= 1 =>
        \A i \in 1 .. Len(entries) :
            entries[i] # nil =>
                LET f == Deref(entries[i])
                IN  /\ (FirstOfHour(entries, i) /\ Priced(prices, f.hour) # {}) =>
                           f.price = Deref(prices[Last(Priced(prices, f.hour))]).price
                    /\ Priced(prices, f.hour) = {} => f.price = 0

\* merge has returned; two price points of one hour differ in price, the first
\* of two entries of that hour holds the later price
C2_Witness ==
    /\ merges >= 1
    /\ \E i, k \in 1 .. Len(entries) : \E j1, j2 \in 1 .. Len(prices) :
        /\ i < k /\ j1 < j2
        /\ entries[i] # nil /\ entries[k] # nil
        /\ FirstOfHour(entries, i)
        /\ Deref(entries[k]).hour = Deref(entries[i]).hour
        /\ Deref(prices[j1]).hour = Deref(entries[i]).hour
        /\ Deref(prices[j2]).hour = Deref(entries[i]).hour
        /\ Deref(prices[j1]).price # Deref(prices[j2]).price
        /\ j2 = Last(Priced(prices, Deref(entries[i]).hour))
        /\ Deref(entries[i]).price = Deref(prices[j2]).price

(***************************************************************************)
(* C3.  For a forecast response with N aligned time/speed/gust entries,    *)
(* fetchWinds of revisions 2 and 3 returns exactly min(N, 72) records,     *)
(* record i carrying time[i], speed[i] and gust[i].                        *)
(***************************************************************************)
C3_MinOfNAndMax ==
    (pc = "today" /\ Failed(calls) = {})
    => LET body == resp[1]
           n == Len(body.time)
       IN  (Len(body.windspeed_10m) = n /\ Len(body.windgusts_10m) = n)
           => /\ Len(entries) = Min(n, max)
              /\ \A i \in 1 .. Min(n, max) :
                    entries[i] = Ptr(Entry(body.time[i], body.windspeed_10m[i],
                                           body.windgusts_10m[i], 0))

(***************************************************************************)
(* C4.  merge is idempotent: a second merge(entries, prices) leaves        *)
(* entries exactly as the first left them, and returns as the first did.   *)
(***************************************************************************)
C4_MergeIdempotent ==
    /\ merges >= 2 => entries = prev
    /\ merges >= 1 => panicked = ""

\* merge was applied twice, to an entry whose hour two price points of
\* different price carry
C4_Witness ==
    /\ merges >= 2
    /\ \E i \in 1 .. Len(entries) : \E j1, j2 \in 1 .. Len(prices) :
        /\ entries[i] # nil
        /\ j1 < j2
        /\ Deref(prices[j1]).hour = Deref(entries[i]).hour
        /\ Deref(prices[j2]).hour = Deref(entries[i]).hour
        /\ Deref(prices[j1]).price # Deref(prices[j2]).price
        /\ Deref(entries[i]).price # 0

\* the request passed the method and address checks and the geolocation
Validated ==
    /\ req.Method \in {"GET", "HEAD"}
    /\ ParseIP(req.RemoteAddr)
    /\ g \in Geos

\* a slot of entries that fetchWinds did not fill from the forecast
Placeholder(e) == e = nil \/ e = Ptr(Entry("", 0, 0, 0))

(***************************************************************************)
(* C5.  In revisions 2 and 3 a request rejected at validation issues no    *)
(* outbound call: a method other than GET and HEAD gets 405, a GET or HEAD *)
(* from an unparseable address gets 400, and at no point of either request *)
(* is there a forecast or price request, a geolocation lookup or a         *)
(* rendering.                                                              *)
(***************************************************************************)
C5_RejectedWithoutCalls ==
    (variant \in {2, 3}
     /\ (req.Method \notin {"GET", "HEAD"} \/ ~ParseIP(req.RemoteAddr)))
    => /\ calls = <<>>
       /\ g = NoGeo
       /\ Wrote(rw, "root") = {} /\ Wrote(rw, "json") = {} /\ Wrote(rw, "html") = {}
       /\ pc \in {"method", "ip", "done"}
       /\ pc = "done" =>
            StatusOf(rw) = IF req.Method \notin {"GET", "HEAD"}
                           THEN StatusMethodNotAllowed ELSE StatusBadRequest

\* a POST from a parseable address was answered 405, and a HEAD from an
\* unparseable address was answered 400
C5_Witness ==
    /\ variant \in {2, 3}
    /\ pc = "done"
    /\ \/ (req.Method = "POST" /\ ParseIP(req.RemoteAddr)
           /\ StatusOf(rw) = StatusMethodNotAllowed)
       \/ (req.Method = "HEAD" /\ ~ParseIP(req.RemoteAddr)
           /\ StatusOf(rw) = StatusBadRequest)
    /\ HasPrefix(req.Path, "/wind")

(***************************************************************************)
(* C6.  In revisions 2 and 3, for a validated request whose fetches        *)
(* succeed, /wind and /wind.json give the JSON body with Content-Type      *)
(* application/json, /wind.html gives the HTML body, and a path outside    *)
(* /wind gives the root page without forecast or price calls.              *)
(***************************************************************************)
C6_RenderingByPath ==
    (variant \in {2, 3} /\ pc = "done" /\ Validated /\ Failed(calls) = {})
    => /\ req.Path \in {"/wind", "/wind.json"} =>
            /\ Wrote(rw, "json") # {}
            /\ ContentTypeSet(rw, "application/json")
       /\ req.Path = "/wind.html" => Wrote(rw, "html") # {}
       /\ ~HasPrefix(req.Path, "/wind") =>
            /\ Wrote(rw, "root") # {}
            /\ calls = <<>>

(***************************************************************************)
(* C7.  In revision 2 the title of /wind.html is the "browser location"    *)
(* form exactly when the client sent both lat and long, and the "City,     *)
(* Country" form when lat or long was absent.                              *)
(***************************************************************************)
C7_TitleBySource ==
    (variant = 2 /\ pc = "done")
    => \A i \in Wrote(rw, "html") :
          /\ HasPrefix(rw[i].text, "Winds at browser location")
                <=> (req.Query[1] # "" /\ req.Query[2] # "")
          /\ (req.Query[1] = "" \/ req.Query[2] = "")
                => HasPrefix(rw[i].text, "Winds in Malmo, Sweden")

(***************************************************************************)
(* C8.  When both daily price requests succeed, fetchPrices returns as     *)
(* many price points as the two days' arrays have objects: today's, in     *)
(* their upstream order, then tomorrow's, in theirs.                       *)
(***************************************************************************)
C8_TodayThenTomorrow ==
    (pc = "merge" /\ Len(resp) = 2)
    => LET today == resp[1].items
           tomorrow == resp[2].items
       IN  /\ Len(prices) = Len(today) + Len(tomorrow)
           /\ \A i \in 1 .. Len(today) : prices[i] = PricePoint(today[i])
           /\ \A i \in 1 .. Len(tomorrow) :
                 prices[Len(today) + i] = PricePoint(tomorrow[i])

\* both requests succeeded and each day has two objects, not the same two
C8_Witness ==
    /\ pc = "merge"
    /\ Len(resp) = 2
    /\ Len(resp[1].items) = 2 /\ Len(resp[2].items) = 2
    /\ resp[1].items[1] # resp[1].items[2]
    /\ resp[1].items # resp[2].items
    /\ err = ""

(***************************************************************************)
(* C9.  In fetchPrices a failure of the today or the tomorrow request      *)
(* makes the fetch return an error and no price points, and after a failed *)
(* today request the tomorrow request is not issued.                       *)
(***************************************************************************)
C9_NoPartialPrices ==
    \A i \in 1 .. Len(calls) :
        (calls[i].backend = "elpris" /\ calls[i].failed)
        => /\ prices = nil
           /\ err = ErrPrice
           /\ i = Len(calls)
           /\ calls[i].what = "today_SE4" =>
                \A k \in 1 .. Len(calls) : calls[k].what # "tomorrow_SE4"

\* today's request gave price points, tomorrow's failed, and the request was
\* answered 502
C9_Witness ==
    /\ pc = "done"
    /\ eToday # nil
    /\ Len(calls) = 3
    /\ ~calls[2].failed
    /\ calls[3].what = "tomorrow_SE4" /\ calls[3].failed
    /\ prices = nil
    /\ StatusOf(rw) = StatusBadGateway

(***************************************************************************)
(* C10.  In revisions 2 and 3, when the forecast has N < 72 hours, slots   *)
(* N..71 of entries are zero-valued records, and merge with a non-empty    *)
(* price series and the rendering finish without a runtime fault, every    *)
(* placeholder rendered with 0.00 values.                                  *)
(***************************************************************************)
C10_PlaceholdersRender ==
    (variant \in {2, 3} /\ Len(entries) = max /\ Placeholder(entries[max])
     /\ prices # nil /\ pc \in {"err", "render", "done", "panic"})
    => /\ pc # "panic"
       /\ \A i \in Wrote(rw, "json") \cup Wrote(rw, "html") :
             /\ Len(rw[i].rows) = max
             /\ rw[i].rows[max].speed = "0.00"
             /\ rw[i].rows[max].gust = "0.00"
             /\ rw[i].rows[max].price = "0.00"


(***************************************************************************)
(* C11.  For a forecast response whose time, windspeed_10m and             *)
(* windgusts_10m arrays are missing or differ in length, fetchWinds (of    *)
(* every revision) does not fail: whatever the three lengths, extraction   *)
(* ends without an out-of-range index and returns a sequence.              *)
(***************************************************************************)
C11_ExtractionCompletes ==
    (Len(resp) = 1 /\ resp[1].kind = "forecast")
    => /\ panicked # "index out of range"
       /\ pc # "panic"

(***************************************************************************)
(* C12.  The response outcome is decided once: after the handler has       *)
(* written an error status (404, 405, 400, 500 or 502) it writes nothing   *)
(* more to the response, and does no geolocation lookup and no outbound    *)
(* fetch.                                                                  *)
(***************************************************************************)
C12_DecidedOnce ==
    [][(\E i \in 1 .. Len(rw) :
           rw[i].op = "WriteHeader"
           /\ rw[i].code \in {StatusNotFound, StatusMethodNotAllowed,
                              StatusBadRequest, StatusInternalServerError,
                              StatusBadGateway})
       => (rw' = rw /\ calls' = calls /\ g' = g)]_vars

====
